---- MODULE Spec2Model ----
(***************************************************************************)
(* Model of the LifeLens sentiment service                                 *)
(* (src/services/sentiment/app/main.py).                                   *)
(*                                                                         *)
(* The service holds one piece of long-lived state, the module-level       *)
(* sentiment_pipeline handle (None when loading failed).  Every handler is *)
(* an "async def" without an await, so the event loop runs each handler to *)
(* completion before the next one starts: a handler is one atomic action.  *)
(*                                                                         *)
(* Strings are sequences of one-character strings.  A confidence is an     *)
(* integer number of 1/ScoreScale units, so 1 - score is ScoreScale -      *)
(* score and the comparison with 0.6 is exact.                             *)
(*                                                                         *)
(* The inference engine is external: each call either returns one raw      *)
(* prediction or raises.  Its answers are drawn nondeterministically, in   *)
(* call order, when the request is handled.                                *)
(***************************************************************************)
EXTENDS Integers, Sequences, FiniteSets

VARIABLES
    sentiment_pipeline, \* "pipeline" when the model loaded, "None" otherwise
    request,            \* the request in flight ([endpoint |-> "none"] when idle)
    response,           \* the response produced for it ([status |-> 0] when idle)
    engine_calls,       \* calls made to the engine for the request in flight
    log                 \* error lines logged for the request in flight

vars == <<sentiment_pipeline, request, response, engine_calls, log>>

----------------------------------------------------------------------------
(* Bounds of the model *)

ScoreScale == 5         \* a confidence is k/ScoreScale, k in 0..ScoreScale
MaxPrefixLen == 2       \* freely chosen texts of a batch (the rest is padding)

(* Program constants *)

ThresholdNum == 6       \* 0.6 = ThresholdNum / ThresholdDen
ThresholdDen == 10
InferMax == 512         \* text[:512]
EchoMax == 100          \* text[:100] + '...'
MaxBatch == 100         \* len(request.texts) > 100

----------------------------------------------------------------------------
(* Python string and list primitives the handlers use *)

Whitespace == {" ", "\t", "\n"}

Rep(c, n) == [i \in 1..n |-> c]

\* s[:n]
Slice(s, n) == SubSeq(s, 1, IF Len(s) < n THEN Len(s) ELSE n)

\* s.strip(): s without its leading and trailing whitespace
Strip(s) ==
    LET keep == {i \in 1..Len(s) : s[i] \notin Whitespace}
    IN  IF keep = {} THEN <<>>
        ELSE LET lo == CHOOSE i \in keep : \A j \in 1..(i - 1) : s[j] \in Whitespace
                 hi == CHOOSE i \in keep : \A j \in (i + 1)..Len(s) : s[j] \in Whitespace
             IN  SubSeq(s, lo, hi)

Ellipsis == <<".", ".", ".">>

----------------------------------------------------------------------------
(* The inference engine's answers *)

Scores == 0..ScoreScale
Causes == {"CUDA out of memory", "tokenizer failure"}

Predictions == [kind : {"ok"}, label : {"POSITIVE", "NEGATIVE"}, score : Scores]
Failures == [kind : {"raise"}, cause : Causes]
Outcomes == Predictions \cup Failures

\* the answer to the k-th call of a request
Answer(outs, k) ==
    IF k \in DOMAIN outs THEN outs[k]
    ELSE [kind |-> "ok", label |-> "POSITIVE", score |-> ScoreScale]

----------------------------------------------------------------------------
(* Label remapping, POST /analyze *)

\* variant: the threshold itself counts as low confidence
BelowThresholdInclusive(score) == score * ThresholdDen <= ThresholdNum * ScoreScale

\* result['score'] < 0.6
BelowThreshold(score) == score * ThresholdDen < ThresholdNum * ScoreScale

AnalyzeRemap(result) ==
    LET label0 == IF result.label = "POSITIVE" THEN "positive" ELSE "negative"
        scores0 == IF result.label = "POSITIVE"
                   THEN [positive |-> result.score,
                         negative |-> ScoreScale - result.score,
                         neutral  |-> 0]
                   ELSE [positive |-> ScoreScale - result.score,
                         negative |-> result.score,
                         neutral  |-> 0]
        low == BelowThreshold(result.score)
    IN  [label  |-> IF low THEN "neutral" ELSE label0,
         score  |-> result.score,
         scores |-> IF low
                    THEN [scores0 EXCEPT !.neutral = ScoreScale - result.score]
                    ELSE scores0]

----------------------------------------------------------------------------
(* Responses *)

HTTPException(status_code, detail) ==
    [status |-> status_code, body |-> [detail |-> detail]]

\* what a handler hands back: the response, the engine calls it made and
\* the error lines it logged
Handled(resp, calls, lines) == [response |-> resp, calls |-> calls, log |-> lines]

Call(input, outcome) == [input |-> input, outcome |-> outcome]

----------------------------------------------------------------------------
(* GET /health and GET /model/info *)

health_check(pipeline) ==
    [status |-> 200,
     body |-> [status |-> "healthy", model_loaded |-> (pipeline # "None")]]

get_model_info(pipeline) ==
    [status |-> 200,
     body |-> [model_name |-> "distilbert-base-uncased-finetuned-sst-2-english",
               model_type |-> "sentiment-analysis",
               labels |-> <<"positive", "negative", "neutral">>,
               max_length |-> 512,
               loaded |-> (pipeline # "None")]]

----------------------------------------------------------------------------
(* POST /analyze *)

\* the try block: truncate, call the engine, remap; any exception gives 500
AnalyzeTry(text, outs) ==
    LET input == Slice(text, InferMax)
        out == Answer(outs, 1)
    IN  IF out.kind = "raise"
        THEN Handled(HTTPException(500, "Failed to analyze sentiment"),
                     <<Call(input, out)>>,
                     <<[line |-> "Sentiment analysis error", cause |-> out.cause]>>)
        ELSE Handled([status |-> 200, body |-> AnalyzeRemap(out)],
                     <<Call(input, out)>>, <<>>)

\* variant: only the empty string is refused
AnalyzeTextIsEmptyNoStrip(text) == Len(text) = 0

\* not request.text or len(request.text.strip()) == 0
AnalyzeTextIsEmpty(text) == Len(text) = 0 \/ Len(Strip(text)) = 0

analyze_sentiment(pipeline, text, outs) ==
    IF pipeline = "None"
    THEN Handled(HTTPException(503, "Model not loaded"), <<>>, <<>>)
    ELSE IF AnalyzeTextIsEmpty(text)
    THEN Handled(HTTPException(400, "Text cannot be empty"), <<>>, <<>>)
    ELSE AnalyzeTry(text, outs)

----------------------------------------------------------------------------
(* POST /analyze/batch *)

\* variant: score is taken from the winning class after the override
BatchRemapScoreOfLabel(result) ==
    LET r == AnalyzeRemap(result)
    IN  [r EXCEPT !.score = r.scores[r.label]]

BatchRemap(result) ==
    LET label0 == IF result.label = "POSITIVE" THEN "positive" ELSE "negative"
        scores0 == IF result.label = "POSITIVE"
                   THEN [positive |-> result.score,
                         negative |-> ScoreScale - result.score,
                         neutral  |-> 0]
                   ELSE [positive |-> ScoreScale - result.score,
                         negative |-> result.score,
                         neutral  |-> 0]
        low == BelowThreshold(result.score)
    IN  [label  |-> IF low THEN "neutral" ELSE label0,
         score  |-> result.score,
         scores |-> IF low
                    THEN [scores0 EXCEPT !.neutral = ScoreScale - result.score]
                    ELSE scores0]

\* variant: the echo is cut at the inference length
EchoAtInferenceLength(text) ==
    IF Len(text) > InferMax THEN Slice(text, InferMax) \o Ellipsis ELSE text

\* text[:100] + '...' if len(text) > 100 else text
Echo(text) == IF Len(text) > EchoMax THEN Slice(text, EchoMax) \o Ellipsis ELSE text

\* variant: only the empty string is skipped
BatchTextIsKeptNoStrip(text) == Len(text) > 0

\* text and len(text.strip()) > 0
BatchTextIsKept(text) == Len(text) > 0 /\ Len(Strip(text)) > 0

BatchEntry(text, result) ==
    LET r == BatchRemap(result)
    IN  [text |-> Echo(text), label |-> r.label, score |-> r.score, scores |-> r.scores]

\* the for loop: the texts that pass the test are handled in input order,
\* the k-th of them with the engine's k-th answer; the first answer that is an
\* exception leaves the loop at once, with the results appended so far.
BatchLoop(texts, outs) ==
    LET kept == SelectSeq(texts, BatchTextIsKept)
        failing == {k \in 1..Len(kept) : Answer(outs, k).kind = "raise"}
        last == IF failing = {} THEN Len(kept)
                ELSE CHOOSE k \in failing : \A j \in failing : k <= j
        done == IF failing = {} THEN Len(kept) ELSE last - 1
    IN  [raised  |-> failing # {},
         results |-> [k \in 1..done |-> BatchEntry(kept[k], Answer(outs, k))],
         calls   |-> [k \in 1..last |->
                         Call(Slice(kept[k], InferMax), Answer(outs, k))]]

\* variant: an exception ends the loop and the results so far are returned
BatchTryPartial(texts, outs) ==
    LET run == BatchLoop(texts, outs)
    IN  Handled([status |-> 200,
                 body |-> [results |-> run.results, total |-> Len(run.results)]],
                run.calls, <<>>)

\* the try block: run the loop; any exception gives 500
BatchTry(texts, outs) ==
    LET run == BatchLoop(texts, outs)
    IN  IF run.raised
        THEN Handled(HTTPException(500, "Failed to analyze sentiments"),
                     run.calls,
                     <<[line |-> "Batch sentiment analysis error",
                        cause |-> run.calls[Len(run.calls)].outcome.cause]>>)
        ELSE Handled([status |-> 200,
                      body |-> [results |-> run.results, total |-> Len(run.results)]],
                     run.calls, <<>>)

\* not request.texts or len(request.texts) == 0
BatchIsEmpty(texts) == Len(texts) = 0

\* variant: the limit is applied to the texts that are not skipped
BatchTooLargeAfterSkip(texts) == Len(SelectSeq(texts, BatchTextIsKept)) > MaxBatch

\* len(request.texts) > 100
BatchTooLarge(texts) == Len(texts) > MaxBatch

\* variant: the size of the batch is checked before the model handle
analyze_sentiment_batch_SizeFirst(pipeline, texts, outs) ==
    IF BatchIsEmpty(texts)
    THEN Handled(HTTPException(400, "No texts provided"), <<>>, <<>>)
    ELSE IF BatchTooLarge(texts)
    THEN Handled(HTTPException(400, "Maximum 100 texts per batch"), <<>>, <<>>)
    ELSE IF pipeline = "None"
    THEN Handled(HTTPException(503, "Model not loaded"), <<>>, <<>>)
    ELSE BatchTry(texts, outs)

analyze_sentiment_batch(pipeline, texts, outs) ==
    IF pipeline = "None"
    THEN Handled(HTTPException(503, "Model not loaded"), <<>>, <<>>)
    ELSE IF BatchIsEmpty(texts)
    THEN Handled(HTTPException(400, "No texts provided"), <<>>, <<>>)
    ELSE IF BatchTooLarge(texts)
    THEN Handled(HTTPException(400, "Maximum 100 texts per batch"), <<>>, <<>>)
    ELSE BatchTry(texts, outs)

----------------------------------------------------------------------------
(* Requests the clients send *)

HasVisible(text) == \E i \in 1..Len(text) : text[i] \notin Whitespace

AnalyzeTexts ==
    {Rep(" ", lead) \o Rep("a", body) \o tail :
        lead \in {0, 1, InferMax}, body \in {0, 1, InferMax},
        tail \in {<<>>, <<"b">>, <<"\n">>}}

ShortTexts == {<<>>, <<" ", " ">>, <<"g", "o", "o", "d">>, <<"b", "a", "d">>}

LongTexts ==
    {Rep("a", EchoMax),
     Rep("a", EchoMax) \o Rep("b", EchoMax \div 2),
     Rep(" ", InferMax) \o <<"a">>,
     Rep("a", InferMax) \o Rep("b", EchoMax)}

BatchTexts == ShortTexts \cup LongTexts

SeqsUpTo(S, n) == UNION {[1..k -> S] : k \in 0..n}

\* the freely chosen texts of a batch: a long text, if any, comes last
Prefixes ==
    {p \in SeqsUpTo(BatchTexts, MaxPrefixLen) :
        \A i \in 1..(Len(p) - 1) : p[i] \in ShortTexts}

PadText == <<" ">>
PadCounts == {0, MaxBatch - MaxPrefixLen, MaxBatch - 1}

\* a batch: the chosen texts with n blank texts after the first of them
Batch(p, n) ==
    IF Len(p) = 0 THEN Rep(PadText, n)
    ELSE <<Head(p)>> \o Rep(PadText, n) \o Tail(p)

\* one answer for each text that has a visible character
OracleFor(texts) ==
    [1..Cardinality({i \in 1..Len(texts) : HasVisible(texts[i])}) -> Outcomes]

----------------------------------------------------------------------------
(* The state machine *)

Idle == request = [endpoint |-> "none"]

Init ==
    /\ sentiment_pipeline \in {"pipeline", "None"}
    /\ request = [endpoint |-> "none"]
    /\ response = [status |-> 0]
    /\ engine_calls = <<>>
    /\ log = <<>>

GetHealth ==
    /\ Idle
    /\ request' = [endpoint |-> "GET /health"]
    /\ response' = health_check(sentiment_pipeline)
    /\ UNCHANGED <<sentiment_pipeline, engine_calls, log>>

GetModelInfo ==
    /\ Idle
    /\ request' = [endpoint |-> "GET /model/info"]
    /\ response' = get_model_info(sentiment_pipeline)
    /\ UNCHANGED <<sentiment_pipeline, engine_calls, log>>

PostAnalyze ==
    /\ Idle
    /\ \E text \in AnalyzeTexts : \E outs \in [1..1 -> Outcomes] :
        \E h \in {analyze_sentiment(sentiment_pipeline, text, outs)} :
            /\ request' = [endpoint |-> "POST /analyze", text |-> text]
            /\ response' = h.response
            /\ engine_calls' = h.calls
            /\ log' = h.log
    /\ UNCHANGED sentiment_pipeline

PostAnalyzeBatch ==
    /\ Idle
    /\ \E p \in Prefixes : \E n \in PadCounts :
        LET texts == Batch(p, n)
        IN  \E outs \in OracleFor(texts) :
            \E h \in {analyze_sentiment_batch(sentiment_pipeline, texts, outs)} :
                /\ request' = [endpoint |-> "POST /analyze/batch", texts |-> texts]
                /\ response' = h.response
                /\ engine_calls' = h.calls
                /\ log' = h.log
    /\ UNCHANGED sentiment_pipeline

\* the response is sent; the service waits for the next request
Respond ==
    /\ ~Idle
    /\ request' = [endpoint |-> "none"]
    /\ response' = [status |-> 0]
    /\ engine_calls' = <<>>
    /\ log' = <<>>
    /\ UNCHANGED sentiment_pipeline

Next == GetHealth \/ GetModelInfo \/ PostAnalyze \/ PostAnalyzeBatch \/ Respond

Spec == Init /\ [][Next]_vars

----------------------------------------------------------------------------
(* Vocabulary of the properties *)

IsAnalyze == request.endpoint = "POST /analyze"
IsBatch == request.endpoint = "POST /analyze/batch"
Loaded == sentiment_pipeline = "pipeline"

\* a text that is empty or holds nothing but whitespace
Blank(text) == \A i \in 1..Len(text) : text[i] \in Whitespace

\* the first n characters of s (all of s when it is shorter)
FirstChars(s, n) == [i \in 1..(IF Len(s) < n THEN Len(s) ELSE n) |-> s[i]]

\* the texts of a batch that are not blank, in input order
NonBlankTexts(texts) == SelectSeq(texts, LAMBDA t : ~Blank(t))

Raised == \E k \in 1..Len(engine_calls) : engine_calls[k].outcome.kind = "raise"

\* every result of the response in flight, paired with the raw prediction it
\* was derived from: <<raw, result>>
Produced ==
    IF IsAnalyze /\ response.status = 200
    THEN {<<engine_calls[1].outcome, response.body>>}
    ELSE IF IsBatch /\ response.status = 200
    THEN {<<engine_calls[i].outcome, response.body.results[i]>> :
             i \in 1..Len(response.body.results)}
    ELSE {}

AtLeastThreshold(score) == 10 * score >= 6 * ScoreScale

OtherClass(label) == IF label = "positive" THEN "negative" ELSE "positive"
ClassOf(rawLabel) == IF rawLabel = "POSITIVE" THEN "positive" ELSE "negative"

----------------------------------------------------------------------------
\* C1: for a raw prediction with confidence >= 0.6 (0.6 included), the result
\* of POST /analyze and of each batch entry has label "positive" iff the raw
\* label is POSITIVE, "negative" otherwise, and scores[label] is the confidence.
C1_HighConfidenceKeepsClass ==
    \A pr \in Produced :
        AtLeastThreshold(pr[1].score) =>
            /\ pr[2].label = "positive" <=> pr[1].label = "POSITIVE"
            /\ pr[2].label = "negative" <=> pr[1].label # "POSITIVE"
            /\ pr[2].scores[pr[2].label] = pr[1].score

\* a batch entry and a single result, both at exactly 0.6
C1_Witness ==
    /\ IsBatch
    /\ \E pr \in Produced :
        /\ 10 * pr[1].score = 6 * ScoreScale
        /\ pr[1].label = "NEGATIVE"
        /\ pr[2].label = "negative"

\* C2: for a raw prediction with confidence < 0.6 the label is "neutral"
\* whatever the raw label, scores.neutral is 1 - confidence, the raw class's
\* entry is the confidence, the other class's entry is 1 - confidence, and
\* score is the original confidence.
C2_LowConfidenceIsNeutral ==
    \A pr \in Produced :
        ~AtLeastThreshold(pr[1].score) =>
            /\ pr[2].label = "neutral"
            /\ pr[2].scores.neutral = ScoreScale - pr[1].score
            /\ pr[2].scores[ClassOf(pr[1].label)] = pr[1].score
            /\ pr[2].scores[OtherClass(ClassOf(pr[1].label))] = ScoreScale - pr[1].score
            /\ pr[2].score = pr[1].score

C2_Witness ==
    /\ IsAnalyze
    /\ \E pr \in Produced :
        /\ ~AtLeastThreshold(pr[1].score)
        /\ pr[1].score > 0
        /\ pr[1].label = "POSITIVE"
        /\ pr[2].label = "neutral"
        /\ pr[2].score # pr[2].scores.neutral

\* C3: the per-class scores of every result sum to 1.
C3_ScoresSumToOne ==
    \A pr \in Produced :
        pr[2].scores.positive + pr[2].scores.negative + pr[2].scores.neutral = ScoreScale

----------------------------------------------------------------------------
\* C4 (as stated): every POST /analyze request whose text is empty or only
\* whitespace is answered with 400, in every state of the service.
C4_BlankTextAlways400 ==
    (IsAnalyze /\ Blank(request.text)) => response.status = 400

\* C4 (amended): such a request is answered with 400 whenever the model is
\* loaded, and with 503 when the model failed to load; the engine is not
\* called in either case.
C4_BlankTextIs400WhenLoaded ==
    (IsAnalyze /\ Blank(request.text)) =>
        /\ response.status = (IF Loaded THEN 400 ELSE 503)
        /\ engine_calls = <<>>

C4_Witness ==
    /\ Loaded
    /\ IsAnalyze
    /\ Len(request.text) > 0
    /\ Blank(request.text)
    /\ response.status = 400

\* C5: when the model failed to load, the handle stays null for the process
\* lifetime, GET /health answers 200 with model_loaded = false, and every
\* POST /analyze and POST /analyze/batch request, whatever its body, is
\* answered with 503 without a call to the engine.
C5_NotLoadedState ==
    ~Loaded =>
        /\ request.endpoint = "GET /health" =>
              /\ response.status = 200
              /\ response.body.model_loaded = FALSE
        /\ (IsAnalyze \/ IsBatch) =>
              /\ response.status = 503
              /\ engine_calls = <<>>

C5_NotLoadedIsUnavailable ==
    /\ []C5_NotLoadedState
    /\ [][~Loaded => ~Loaded']_vars

\* an oversized batch with a visible text, refused with 503 rather than 400
C5_Witness ==
    /\ ~Loaded
    /\ IsBatch
    /\ Len(request.texts) > 100
    /\ \E i \in 1..Len(request.texts) : ~Blank(request.texts[i])
    /\ response.status = 503

\* C6: an accepted batch (model loaded, 1..100 texts, no inference failure)
\* is answered with 200; its results hold one entry per non-blank text, in
\* input order; blank texts give no entry and no error; total is the number
\* of entries.
C6_BatchSkipsBlankTexts ==
    (IsBatch /\ Loaded /\ Len(request.texts) \in 1..100 /\ ~Raised) =>
        LET kept == NonBlankTexts(request.texts)
            results == response.body.results
        IN  /\ response.status = 200
            /\ Len(results) = Len(kept)
            /\ Len(engine_calls) = Len(kept)
            /\ \A i \in 1..Len(results) :
                  /\ FirstChars(results[i].text, 100) = FirstChars(kept[i], 100)
                  /\ results[i].score = engine_calls[i].outcome.score
            /\ response.body.total = Len(results)

\* 100 texts, blank ones between two visible ones with different predictions
C6_Witness ==
    /\ IsBatch
    /\ response.status = 200
    /\ Len(request.texts) = 100
    /\ ~Blank(request.texts[1])
    /\ Blank(request.texts[2])
    /\ ~Blank(request.texts[100])
    /\ request.texts[1] # request.texts[100]
    /\ Len(response.body.results) = 2
    /\ response.body.results[1].score # response.body.results[2].score
    /\ response.body.total = 2

\* a batch of blank texts only
C6_AllBlankWitness ==
    /\ IsBatch
    /\ Len(request.texts) = 100
    /\ \A i \in 1..100 : Blank(request.texts[i])
    /\ response.status = 200
    /\ response.body.results = <<>>
    /\ response.body.total = 0

\* C7: with the model loaded, POST /analyze/batch answers 400 exactly when
\* texts is empty or has more than 100 entries, counted before blank texts
\* are skipped.
C7_BatchSizeLimit ==
    (IsBatch /\ Loaded) =>
        (response.status = 400 <=>
            (Len(request.texts) = 0 \/ Len(request.texts) > 100))

\* 101 texts of which one is not blank
C7_Witness ==
    /\ IsBatch
    /\ Loaded
    /\ Len(request.texts) = 101
    /\ Len(NonBlankTexts(request.texts)) = 1
    /\ response.status = 400

\* C8: a batch entry echoes the original text: its first 100 characters and
\* "..." when it is longer than 100 characters, the text itself otherwise;
\* the engine receives the first 512 characters of that same original text.
C8_EchoAndInferenceTruncation ==
    IsBatch =>
        LET kept == NonBlankTexts(request.texts)
        IN  /\ \A k \in 1..Len(engine_calls) :
                  engine_calls[k].input = FirstChars(kept[k], 512)
            /\ response.status = 200 =>
                  \A i \in 1..Len(response.body.results) :
                      response.body.results[i].text =
                          IF Len(kept[i]) > 100
                          THEN FirstChars(kept[i], 100) \o <<".", ".", ".">>
                          ELSE kept[i]

\* a text of more than 512 characters: 103 characters echoed, 512 inferred
C8_Witness ==
    /\ IsBatch
    /\ response.status = 200
    /\ \E i \in 1..Len(response.body.results) :
        /\ Len(NonBlankTexts(request.texts)[i]) > 512
        /\ Len(response.body.results[i].text) = 103
        /\ Len(engine_calls[i].input) = 512

\* C9: when the engine raises, the request is answered with 500 and a fixed
\* message without the cause (which is logged), a batch returns no partial
\* results, the model handle is untouched, and once the response is sent the
\* service is in the state it was in before the request.
C9_FailedRequestState ==
    Raised =>
        /\ response.status = 500
        /\ response.body =
              [detail |-> IF IsBatch THEN "Failed to analyze sentiments"
                          ELSE "Failed to analyze sentiment"]
        /\ response.body.detail \notin Causes
        /\ Len(log) = 1
        /\ log[1].cause = engine_calls[Len(engine_calls)].outcome.cause

C9_InferenceFailureIs500 ==
    /\ []C9_FailedRequestState
    /\ [][sentiment_pipeline' = sentiment_pipeline]_vars
    /\ [][Raised => /\ request' = [endpoint |-> "none"]
                    /\ response' = [status |-> 0]
                    /\ engine_calls' = <<>>
                    /\ log' = <<>>]_vars

\* the second text of a batch fails after the first one was analysed
C9_Witness ==
    /\ IsBatch
    /\ Len(engine_calls) = 2
    /\ engine_calls[1].outcome.kind = "ok"
    /\ engine_calls[2].outcome.kind = "raise"
    /\ response.status = 500

\* C10: the string passed to the engine always holds a character that is
\* not whitespace.
C10_EngineNeverGetsBlank ==
    \A k \in 1..Len(engine_calls) : ~Blank(engine_calls[k].input)

====
